---- MODULE Spec2Model ----
(***************************************************************************)
(* State-machine model of the parallax_window application:                 *)
(*   - the tracking hook (useMultimodalTracking.ts): predictWebcam and the *)
(*     gesture classifier analyzeHandGesture;                              *)
(*   - the entity simulation (BulletSystem.tsx, TargetSystem.tsx);         *)
(*   - the off-axis camera (ParallaxCamera.tsx, parallaxUtils.ts).         *)
(*                                                                         *)
(* Units.  Time is in integer milliseconds.  Hand-landmark coordinates are *)
(* integers in units of 1/2000 of the normalised image (so 0.0005 = 1).    *)
(* World lengths (positions, scales, eye) are integers in tenths of a      *)
(* world unit.  Face coordinates are integers in tenths.                   *)
(*                                                                         *)
(* Scheduling.  Both loops are driven by requestAnimationFrame: in every   *)
(* animation frame each registered callback runs once (the r3f frame loop  *)
(* first, it is registered first), and React commits the queued state      *)
(* updates before the next animation frame.  Timer callbacks are tasks     *)
(* that run between animation frames, at or after their due time.         *)
(***************************************************************************)
EXTENDS Integers, Sequences, FiniteSets, TLC

VARIABLES
    now,              \* real time in ms (performance.now / Date.now)
    videoTime,        \* video.currentTime of the webcam element
    loops,            \* the registered requestAnimationFrame loops
    pending,          \* loops whose callback has not yet run in this animation frame
    lastVideoTimeRef, \* useMultimodalTracking.ts:31
    facePositionRef,  \* :22
    facePosition,     \* :21 (React state, as committed)
    handDataRef,      \* :26
    handData,         \* :25 (React state, as committed)
    lastIndexTipY,    \* :34
    lastTimeRef,      \* :35
    recoilCoolDown,   \* :37
    lastFireAt,       \* history: timestamp of the latest fire edge, -1 if none
    prevFrameMs,      \* history: timestamp of the latest processed video frame, -1 if none
    heldSinceFire,    \* history: gun pose on every processed frame since the latest fire edge, all < 100 ms apart
    prevFiring,       \* history: the result published for the processed frame before the latest had isFiring
    fireCount,        \* history: number of fire edges published so far
    horizon,          \* the time up to which the model is explored
    mounted,          \* the r3f components whose useFrame callback is subscribed
    lastFrameAt,      \* time of the previous r3f frame (THREE.Clock.oldTime)
    currentPos,       \* ParallaxCamera.tsx:14, the smoothed eye
    bullets,          \* BulletSystem.tsx:26
    fragments,        \* BulletSystem.tsx:27
    lastFireTime,     \* BulletSystem.tsx:28
    fragmentTimers,   \* BulletSystem.tsx:101, bursts waiting in setTimeout(..., 0)
    targets,          \* TargetSystem.tsx:71 (and the array targetsRef.current at :73-78)
    respawnTimers,    \* TargetSystem.tsx:92-112, pending respawn timers [id, due]
    frameLog,         \* history: what the latest BulletSystem frame read, moved and hit
    spawnCount,       \* history: number of bullets spawned so far
    lastSpawn,        \* history: the latest spawned bullet, the camera eye before and after that frame
    startup,          \* useMultimodalTracking.ts:43-83, the await at which startup is suspended
    faceLandmarker,   \* :40  "undefined", "open" or "closed"
    handLandmarker,   \* :41
    videoElement,     \* :29  videoRef.current is attached to the <video> element
    stream,           \* :75  the camera tracks: "none", "live" or "stopped"
    srcObject,        \* :78  the stream has been assigned to the video element
    loadeddata,       \* :79  "none", "listening" or "fired"
    requestRef,       \* :30  0, or 1 for the handle of the latest requested frame
    unmounted,        \* the effect cleanup (:247-255) has run
    detections,       \* history: detector calls for the current video frame, and what they found
    closedUse,        \* history: a detector was invoked after it had been closed
    ranAfterTeardown, \* history: the per-frame callback passed its guard (:86) after cleanup
    teardownAt,       \* history: the value of startup when cleanup ran
    cleanupLog        \* history: the steps cleanup has taken, in order

trackVars ==
    <<videoTime, lastVideoTimeRef, facePositionRef, facePosition, handDataRef, handData,
      lastIndexTipY, lastTimeRef, recoilCoolDown>>

histTrackVars ==
    <<lastFireAt, prevFrameMs, heldSinceFire, prevFiring, fireCount>>

simVars ==
    <<lastFrameAt, currentPos, bullets, fragments, lastFireTime, fragmentTimers, targets,
      respawnTimers>>

histSimVars ==
    <<frameLog, spawnCount, lastSpawn>>

lifeVars ==
    <<startup, faceLandmarker, handLandmarker, videoElement, stream, srcObject, loadeddata,
      unmounted, teardownAt, cleanupLog>>

vars ==
    <<now, loops, pending, horizon, mounted, trackVars, histTrackVars, simVars, histSimVars,
      lifeVars, requestRef, detections, closedUse, ranAfterTeardown>>

----------------------------------------------------------------------------
(* Values *)

Null ==
    <<>>

Some(x) ==
    <<x>>

Pt(px, py, pz) ==
    [x |-> px, y |-> py, z |-> pz]

\* useMultimodalTracking.ts:21-22, the initial face position
InitialFacePosition ==
    [x |-> 0, y |-> 0, z |-> 0, detected |-> FALSE]

----------------------------------------------------------------------------
(* Gesture classifier: analyzeHandGesture, useMultimodalTracking.ts:146-242 *)

\* :171-172
distSq(p1, p2) ==
    (p1.x - p2.x) * (p1.x - p2.x) + (p1.y - p2.y) * (p1.y - p2.y)

\* :176  distSq(indexTip, wrist) > distSq(indexMCP, wrist) * 1.5
isIndexLong2D(lm) ==
    2 * distSq(lm.indexTip, lm.wrist) > 3 * distSq(lm.indexMCP, lm.wrist)

\* :180  (indexTip.z - indexMCP.z) < -0.05, i.e. -100 landmark units
isIndexPointingForward(lm) ==
    (lm.indexTip.z - lm.indexMCP.z) < -100

\* :191-193
isFolded(tip, pip, wrist) ==
    distSq(tip, wrist) < distSq(pip, wrist)

isGunPoseOf_IgnorePinky(lm) ==
    /\ (isIndexLong2D(lm) \/ isIndexPointingForward(lm))
    /\ isFolded(lm.middleTip, lm.middlePIP, lm.wrist)
    /\ isFolded(lm.ringTip, lm.ringPIP, lm.wrist)

\* :182, :200
isGunPoseOf(lm) ==
    /\ (isIndexLong2D(lm) \/ isIndexPointingForward(lm))
    /\ isFolded(lm.middleTip, lm.middlePIP, lm.wrist)
    /\ isFolded(lm.ringTip, lm.ringPIP, lm.wrist)
    /\ isFolded(lm.pinkyTip, lm.pinkyPIP, lm.wrist)

\* :228, the cooldown a fire edge sets
RecoilCoolDownMs ==
    400

\* :214, upper end of the accepted sample gap
MaxSampleGapMs ==
    100

DtValid_Inclusive(dt) ==
    dt > 0 /\ dt <= MaxSampleGapMs

\* :214  if (dt > 0 && dt < 100)
DtValid(dt) ==
    dt > 0 /\ dt < MaxSampleGapMs

\* :215-221  speedY = (currentY - lastY) / dt  <  RECOIL_THRESHOLD = -0.0005 per ms.
\* In landmark units -0.0005 is -1, and dt > 0, so the comparison is dy < -dt.
SpeedBelowThreshold(currentY, lastY, dt) ==
    (currentY - lastY) < (-1) * dt

SpeedAtOrBelowThreshold(currentY, lastY, dt) ==
    (currentY - lastY) <= (-1) * dt

RecoilDetected_NoCoolDown(currentY, lastY, dt, cd) ==
    SpeedBelowThreshold(currentY, lastY, dt)

\* :226  if (speedY < RECOIL_THRESHOLD && recoilCoolDown.current <= 0)
RecoilDetected(currentY, lastY, dt, cd) ==
    SpeedBelowThreshold(currentY, lastY, dt) /\ cd <= 0

CoolDownAfterFire_Keep(cd) ==
    cd

\* :227-228  a fire edge restarts the cooldown: recoilCoolDown.current = 400
CoolDownAfterFire(cd) ==
    RecoilCoolDownMs

\* :237-239  the decay; (lastTimeRef.current || timeMs) is timeMs when lastTimeRef is 0
DecayCoolDown(cd, timeMs, lastTime) ==
    IF cd > 0
    THEN cd - (timeMs - (IF lastTime = 0 THEN timeMs ELSE lastTime))
    ELSE cd

analyzeHandGesture_FireInAnyPose(lm, timeMs, st) ==
    LET isGunPose == isGunPoseOf(lm)
        currentY  == lm.indexTip.y
        dt        == timeMs - st.lastTimeRef
        isFiring  == /\ DtValid(dt)
                     /\ RecoilDetected(currentY, st.lastIndexTipY, dt, st.recoilCoolDown)
        cdFired   == IF isFiring THEN CoolDownAfterFire(st.recoilCoolDown) ELSE st.recoilCoolDown
        newLastY  == IF isGunPose THEN currentY ELSE st.lastIndexTipY
        newLastT  == IF isGunPose THEN timeMs ELSE st.lastTimeRef
    IN  [isGunPose      |-> isGunPose,
         isFiring       |-> isFiring,
         lastIndexTipY  |-> newLastY,
         lastTimeRef    |-> newLastT,
         recoilCoolDown |-> DecayCoolDown(cdFired, timeMs, newLastT)]

analyzeHandGesture_AlwaysTrack(lm, timeMs, st) ==
    LET isGunPose == isGunPoseOf(lm)
        currentY  == lm.indexTip.y
        dt        == timeMs - st.lastTimeRef
        isFiring  == /\ isGunPose
                     /\ DtValid(dt)
                     /\ RecoilDetected(currentY, st.lastIndexTipY, dt, st.recoilCoolDown)
        cdFired   == IF isFiring THEN CoolDownAfterFire(st.recoilCoolDown) ELSE st.recoilCoolDown
    IN  [isGunPose      |-> isGunPose,
         isFiring       |-> isFiring,
         lastIndexTipY  |-> currentY,
         lastTimeRef    |-> timeMs,
         recoilCoolDown |-> DecayCoolDown(cdFired, timeMs, timeMs)]

\* :146-242  the classifier on one frame's landmarks, from the classifier state
\* st = [lastIndexTipY, lastTimeRef, recoilCoolDown]; returns the result and the new state
analyzeHandGesture(lm, timeMs, st) ==
    LET isGunPose == isGunPoseOf(lm)
        currentY  == lm.indexTip.y
        dt        == timeMs - st.lastTimeRef
        isFiring  == /\ isGunPose
                     /\ DtValid(dt)
                     /\ RecoilDetected(currentY, st.lastIndexTipY, dt, st.recoilCoolDown)
        cdFired   == IF isFiring THEN CoolDownAfterFire(st.recoilCoolDown) ELSE st.recoilCoolDown
        newLastY  == IF isGunPose THEN currentY ELSE st.lastIndexTipY
        newLastT  == IF isGunPose THEN timeMs ELSE st.lastTimeRef
    IN  [isGunPose      |-> isGunPose,
         isFiring       |-> isFiring,
         lastIndexTipY  |-> newLastY,
         lastTimeRef    |-> newLastT,
         recoilCoolDown |-> DecayCoolDown(cdFired, timeMs, newLastT)]

----------------------------------------------------------------------------
(* Tracking aggregator: predictWebcam, useMultimodalTracking.ts:85-143 *)

FaceResult_Reset(face, prev) ==
    IF face # Null
    THEN [x |-> (face[1].x - 10), y |-> -(face[1].y - 10), z |-> face[1].z, detected |-> TRUE]
    ELSE [x |-> 0, y |-> 0, z |-> 0, detected |-> FALSE]

\* :101-116  face result from the nose landmark (x, y in twentieths, z in tenths), or none
FaceResult(face, prev) ==
    IF face # Null
    THEN [x |-> (face[1].x - 10), y |-> -(face[1].y - 10), z |-> face[1].z, detected |-> TRUE]
    ELSE [prev EXCEPT !.detected = FALSE]

NewHandData_TipFromWrist(lm, r) ==
    [landmarks   |-> lm,
     isGunPose   |-> r.isGunPose,
     isFiring    |-> r.isFiring,
     wristPos    |-> lm.wrist,
     indexTipPos |-> lm.wrist]

\* :126-132
NewHandData(lm, r) ==
    [landmarks   |-> lm,
     isGunPose   |-> r.isGunPose,
     isFiring    |-> r.isFiring,
     wristPos    |-> lm.wrist,
     indexTipPos |-> lm.indexTip]

\* :137-138  the hand result published when no hand is found
LostHand_KeepPrevious(prev) ==
    prev

LostHand(prev) ==
    Null

NoDetections ==
    [faceCalls |-> 0, handCalls |-> 0, face |-> Null, hand |-> Null, steps |-> <<>>]

FrameSteps_HandFirst(hand) ==
    <<"handLandmarker.detectForVideo">>
        \o (IF hand # Null THEN <<"analyzeHandGesture">> ELSE <<>>)
        \o <<"setHandData", "faceLandmarker.detectForVideo", "setFacePosition">>

\* :100-138  the calls predictWebcam makes on a new video frame, in program order
FrameSteps(hand) ==
    <<"faceLandmarker.detectForVideo", "setFacePosition", "handLandmarker.detectForVideo">>
        \o (IF hand # Null THEN <<"analyzeHandGesture">> ELSE <<>>)
        \o <<"setHandData">>

\* :142  requestRef.current = requestAnimationFrame(predictWebcam)
RequestFrame ==
    /\ loops' = loops \cup {"tracking"}
    /\ requestRef' = 1

\* :95-140  the detectors run on a new video frame and the results are published
ProcessVideoFrame(face, hand) ==
    LET startTimeMs == now
        newFace     == FaceResult(face, facePositionRef)
        st          == [lastIndexTipY  |-> lastIndexTipY,
                        lastTimeRef    |-> lastTimeRef,
                        recoilCoolDown |-> recoilCoolDown]
        r           == analyzeHandGesture(hand[1], startTimeMs, st)
    IN  /\ lastVideoTimeRef' = videoTime
        /\ detections' = [faceCalls |-> detections.faceCalls + 1,
                          handCalls |-> detections.handCalls + 1,
                          face      |-> face,
                          hand      |-> hand,
                          steps     |-> FrameSteps(hand)]
        /\ facePositionRef' = newFace
        /\ facePosition' = newFace
        /\ prevFrameMs' = startTimeMs
        /\ prevFiring' = (handDataRef # Null /\ handDataRef[1].isFiring)
        /\ IF hand # Null
           THEN /\ handDataRef' = Some(NewHandData(hand[1], r))
                /\ handData' = Some(NewHandData(hand[1], r))
                /\ lastIndexTipY' = r.lastIndexTipY
                /\ lastTimeRef' = r.lastTimeRef
                /\ recoilCoolDown' = r.recoilCoolDown
                /\ lastFireAt' = IF r.isFiring THEN startTimeMs ELSE lastFireAt
                /\ fireCount' = IF r.isFiring THEN fireCount + 1 ELSE fireCount
                /\ heldSinceFire' =
                      \/ r.isFiring
                      \/ /\ heldSinceFire
                         /\ r.isGunPose
                         /\ startTimeMs - prevFrameMs < MaxSampleGapMs
           ELSE /\ handDataRef' = LostHand(handDataRef)
                /\ handData' = LostHand(handData)
                /\ heldSinceFire' = FALSE
                /\ UNCHANGED <<lastIndexTipY, lastTimeRef, recoilCoolDown, lastFireAt,
                               fireCount>>

\* what a run of the callback that does not reach the detectors leaves alone
NoDetection ==
    UNCHANGED <<lastVideoTimeRef, facePositionRef, facePosition, handDataRef, handData,
                lastIndexTipY, lastTimeRef, recoilCoolDown, histTrackVars, detections,
                closedUse>>

predictWebcam_EveryCallback(face, hand, videoReady, throws) ==
    IF faceLandmarker = "undefined" \/ handLandmarker = "undefined" \/ ~videoElement
    THEN /\ loops' = loops \ {"tracking"}
         /\ NoDetection
         /\ UNCHANGED <<requestRef, ranAfterTeardown>>
    ELSE /\ ranAfterTeardown' = (ranAfterTeardown \/ unmounted)
         /\ IF ~videoReady
            THEN /\ RequestFrame
                 /\ NoDetection
            ELSE /\ ProcessVideoFrame(face, hand)
                 /\ closedUse' = (closedUse \/ faceLandmarker = "closed"
                                            \/ handLandmarker = "closed")
                 /\ RequestFrame

\* :85-143  the body of the per-frame callback.  face and hand are what the detectors
\* return for the current video frame (Null: nothing found); videoReady: the video has
\* a size (:89); throws: a call of a closed detector raises instead of returning
predictWebcam(face, hand, videoReady, throws) ==
    IF faceLandmarker = "undefined" \/ handLandmarker = "undefined" \/ ~videoElement
    THEN /\ loops' = loops \ {"tracking"}
         /\ NoDetection
         /\ UNCHANGED <<requestRef, ranAfterTeardown>>
    ELSE /\ ranAfterTeardown' = (ranAfterTeardown \/ unmounted)
         /\ IF ~videoReady \/ videoTime = lastVideoTimeRef
            THEN /\ RequestFrame
                 /\ NoDetection
            ELSE IF faceLandmarker = "closed" /\ throws
            THEN /\ lastVideoTimeRef' = videoTime
                 /\ detections' = [detections EXCEPT !.faceCalls = @ + 1,
                                                     !.steps = SubSeq(FrameSteps(hand), 1, 1)]
                 /\ closedUse' = TRUE
                 /\ loops' = loops \ {"tracking"}
                 /\ UNCHANGED <<requestRef, facePositionRef, facePosition, handDataRef,
                                handData, lastIndexTipY, lastTimeRef, recoilCoolDown,
                                histTrackVars>>
            ELSE /\ ProcessVideoFrame(face, hand)
                 /\ closedUse' = (closedUse \/ faceLandmarker = "closed"
                                            \/ handLandmarker = "closed")
                 /\ RequestFrame

\* whether the detector call of this run can raise
Raises ==
    IF faceLandmarker = "closed" THEN BOOLEAN ELSE {FALSE}

\* the callback run by requestAnimationFrame, with the video playing
PredictWebcam(face, hand) ==
    /\ "tracking" \in pending
    /\ "r3f" \notin pending
    /\ pending' = pending \ {"tracking"}
    /\ \E throws \in Raises : predictWebcam(face, hand, TRUE, throws)
    /\ UNCHANGED <<now, videoTime, horizon, mounted, simVars, histSimVars, lifeVars>>

----------------------------------------------------------------------------
(* Time and the animation-frame schedule *)

MaxTime ==
    600

\* The next animation frame, d ms later; newVideoFrame: the webcam delivered a frame
AdvanceTime(d, newVideoFrame) ==
    /\ pending = {}
    /\ now + d <= horizon
    /\ now' = now + d
    /\ pending' = loops
    /\ videoTime' = IF newVideoFrame THEN now + d ELSE videoTime
    /\ detections' = IF newVideoFrame
                     THEN [detections EXCEPT !.faceCalls = 0, !.handCalls = 0]
                     ELSE detections
    /\ UNCHANGED <<lifeVars, requestRef, closedUse, ranAfterTeardown>>
    /\ UNCHANGED <<loops, horizon, mounted, lastVideoTimeRef, facePositionRef, facePosition,
                   handDataRef, handData, lastIndexTipY, lastTimeRef, recoilCoolDown,
                   histTrackVars, simVars, histSimVars>>

\* the state of the hook once startup has completed and the loop is running
Running ==
    /\ startup = "done"
    /\ faceLandmarker = "open"
    /\ handLandmarker = "open"
    /\ videoElement = TRUE
    /\ stream = "live"
    /\ srcObject = TRUE
    /\ loadeddata = "fired"
    /\ requestRef = 1
    /\ unmounted = FALSE
    /\ teardownAt = "none"
    /\ cleanupLog = <<>>

InitTracking ==
    /\ Running
    /\ detections = NoDetections
    /\ closedUse = FALSE
    /\ ranAfterTeardown = FALSE
    /\ now = 0
    /\ videoTime = 0
    /\ pending = {}
    /\ lastVideoTimeRef = -1
    /\ facePositionRef = InitialFacePosition
    /\ facePosition = InitialFacePosition
    /\ handDataRef = Null
    /\ handData = Null
    /\ lastIndexTipY = 0
    /\ lastTimeRef = 0
    /\ recoilCoolDown = 0
    /\ lastFireAt = -1
    /\ prevFrameMs = -1
    /\ heldSinceFire = FALSE
    /\ prevFiring = FALSE
    /\ fireCount = 0

----------------------------------------------------------------------------
(* Vectors (THREE.Vector3), components in tenths of a world unit *)

Origin ==
    Pt(0, 0, 0)

VAdd(a, b) ==
    Pt(a.x + b.x, a.y + b.y, a.z + b.z)

VSub(a, b) ==
    Pt(a.x - b.x, a.y - b.y, a.z - b.z)

\* v * num / den, component by component
VScale(v, num, den) ==
    Pt((v.x * num) \div den, (v.y * num) \div den, (v.z * num) \div den)

\* squared distance of two points (Vector3.distanceTo, before the root)
DistSq3(a, b) ==
    (a.x - b.x) * (a.x - b.x) + (a.y - b.y) * (a.y - b.y) + (a.z - b.z) * (a.z - b.z)

MaxCoord ==
    5000

\* the integer square root of n, searched in lo..hi
RECURSIVE ISqrtIn(_, _, _)
ISqrtIn(n, lo, hi) ==
    IF lo >= hi
    THEN lo
    ELSE LET mid == (lo + hi + 1) \div 2
         IN  IF mid * mid <= n THEN ISqrtIn(n, mid, hi) ELSE ISqrtIn(n, lo, mid - 1)

ISqrt(n) ==
    ISqrtIn(n, 0, MaxCoord)

\* Vector3.normalize: the unit vector, its components in tenths (v / (length || 1))
Normalize(v) ==
    LET len == ISqrt(DistSq3(v, Origin))
    IN  IF len = 0 THEN v ELSE VScale(v, 10, len)

----------------------------------------------------------------------------
(* Eye position: parallaxUtils.ts and ParallaxCamera.tsx *)

SCALE_X ==
    30

SCALE_Y ==
    20

BASE_Z ==
    60

Z_RANGE ==
    40

MIN_Z ==
    10

Max(a, b) ==
    IF a >= b THEN a ELSE b

Min(a, b) ==
    IF a <= b THEN a ELSE b

calculateCameraPosition_Unclamped(fp) ==
    IF ~fp.detected
    THEN Pt(0, 0, BASE_Z * 10)
    ELSE Pt((-fp.x) * SCALE_X, fp.y * SCALE_Y, BASE_Z * 10 + fp.z * Z_RANGE)

\* parallaxUtils.ts:17-40
calculateCameraPosition(fp) ==
    IF ~fp.detected
    THEN Pt(0, 0, BASE_Z * 10)
    ELSE Pt((-fp.x) * SCALE_X, fp.y * SCALE_Y, Max(MIN_Z * 10, BASE_Z * 10 + fp.z * Z_RANGE))

targetVec_NoMinimum(latestPos) ==
    IF ~latestPos.detected
    THEN Pt(0, 0, 600)
    ELSE Pt((-latestPos.x) * 30, latestPos.y * 20, 600 + latestPos.z * 40)

targetVec_KeepLost(latestPos) ==
    Pt((-latestPos.x) * 30, latestPos.y * 20, Max(100, 600 + latestPos.z * 40))

\* ParallaxCamera.tsx:33-56, the target eye computed inline by the camera
targetVec(latestPos) ==
    IF ~latestPos.detected
    THEN Pt(0, 0, 600)
    ELSE Pt((-latestPos.x) * 30, latestPos.y * 20, Max(100, 600 + latestPos.z * 40))

\* ParallaxCamera.tsx:83-88  near = 0.1; safePz = Math.max(0.1, pz), the divisor of the
\* frustum edges (:90-93), in tenths of a unit
safePz(pz) ==
    Max(1, pz)

SmoothTowards_Snap(cur, tgt) ==
    tgt

\* Vector3.lerp(target, 0.3), ParallaxCamera.tsx:17,59 (rounded to the nearest tenth)
SmoothTowards(cur, tgt) ==
    Pt(cur.x + ((tgt.x - cur.x) * 3 + 5) \div 10,
       cur.y + ((tgt.y - cur.y) * 3 + 5) \div 10,
       cur.z + ((tgt.z - cur.z) * 3 + 5) \div 10)

----------------------------------------------------------------------------
(* TargetSystem.tsx *)

\* where Math.random may put a target: sample points of the primary box (:33-37)
\* and of the fallback box (:49-53)
SpawnSpots ==
    {Pt(0, 0, -300), Pt(0, 35, -300)}

InPrimaryBox(p) ==
    /\ -175 <= p.x /\ p.x < 175
    /\ -90 <= p.y /\ p.y < 90
    /\ -400 < p.z /\ p.z <= -50

InFallbackBox(p) ==
    /\ -150 <= p.x /\ p.x < 150
    /\ -75 <= p.y /\ p.y < 75
    /\ -400 < p.z /\ p.z <= -100

MIN_DIST ==
    6

\* :39-45
ValidSpot(pos, existingTargets) ==
    \A i \in DOMAIN existingTargets :
        ~(existingTargets[i].active
          /\ DistSq3(pos, existingTargets[i].position) < (MIN_DIST * 10) * (MIN_DIST * 10))

\* :29-54  the positions getRandomPosition can return: a valid draw of one of the
\* ten attempts, or, when ten draws in a row can be invalid, the unchecked fallback
getRandomPosition(existingTargets) ==
    LET primary == {p \in SpawnSpots : InPrimaryBox(p)}
    IN  {p \in primary : ValidSpot(p, existingTargets)}
        \cup (IF \E p \in primary : ~ValidSpot(p, existingTargets)
              THEN {p \in SpawnSpots : InFallbackBox(p)}
              ELSE {})

NoHitTime ==
    -1

\* :60-66 (the colour is not modelled)
NewTarget(i, pos) ==
    [id |-> i, position |-> pos, scale |-> 30, active |-> TRUE, hitTime |-> NoHitTime]

PoolSize ==
    2

\* :57-69  the pools the initialiser can build, target by target
RECURSIVE initialTargets(_)
initialTargets(t) ==
    IF Len(t) >= PoolSize
    THEN {t}
    ELSE UNION {initialTargets(Append(t, NewTarget(Len(t), p))) : p \in getRandomPosition(t)}

\* :126-134  scale animation of one frame, delta in ms (5 units per second)
GrowTargets(ts, delta) ==
    [i \in DOMAIN ts |->
        IF ~ts[i].active THEN ts[i]
        ELSE IF ts[i].scale < 30
             THEN [ts[i] EXCEPT !.scale = Min(30, ts[i].scale + (delta * 5) \div 100)]
             ELSE ts[i]]

\* :84-89  the state updates queued by hit(id) for the ids in hitIds, applied in order
MarkHits(ts, hitIds, t) ==
    [i \in DOMAIN ts |->
        IF ts[i].active /\ (\E k \in DOMAIN hitIds : hitIds[k] = ts[i].id)
        THEN [ts[i] EXCEPT !.active = FALSE, !.hitTime = t]
        ELSE ts[i]]

RESPAWN_DELAY ==
    2000

\* :92-112  the timers started by hit(id), one per call
NewRespawnTimers(hitIds, t) ==
    [k \in DOMAIN hitIds |-> [id |-> hitIds[k], due |-> t + RESPAWN_DELAY]]

Respawned_NotFound(ts, id) ==
    {ts}

Respawned_Appending(ts, id) ==
    {Append(ts, [id |-> id, position |-> newPos, scale |-> 0, active |-> TRUE,
                 hitTime |-> -1])
     : newPos \in getRandomPosition(SelectSeq(ts, LAMBDA t : t.active /\ t.id # id))}

\* :93-111  the pools a respawn callback for id can produce
Respawned(ts, id) ==
    IF \A i \in DOMAIN ts : ts[i].id # id
    THEN {ts}
    ELSE LET idx   == CHOOSE i \in DOMAIN ts : ts[i].id = id /\ \A j \in 1..(i - 1) : ts[j].id # id
             others == SelectSeq(ts, LAMBDA t : t.active /\ t.id # id)
         IN  {[ts EXCEPT ![idx] = [ts[idx] EXCEPT !.active = TRUE, !.hitTime = NoHitTime,
                                                   !.position = newPos, !.scale = 0]]
              : newPos \in getRandomPosition(others)}

----------------------------------------------------------------------------
(* BulletSystem.tsx *)

BULLET_LIFE ==
    3000

\* :124-144  the bullet built by spawnBullet from the facePosition prop; the
\* Math.random id is modelled by the (unique) time of the spawning frame
spawnBullet(fp, id) ==
    LET screenCenter == Origin
        cameraPos    == calculateCameraPosition(fp)
        direction    == Normalize(VSub(screenCenter, cameraPos))
        spawnPos     == VAdd(cameraPos, VScale(direction, 10, 1))
    IN  [id |-> id, position |-> spawnPos, velocity |-> direction, active |-> TRUE,
         life |-> BULLET_LIFE]

InCollisionRange_Inclusive(pos, target) ==
    DistSq3(pos, target.position) <= (target.scale + 5) * (target.scale + 5)

\* :71  the sphere test, dist < target.scale + 0.5
InCollisionRange(pos, target) ==
    DistSq3(pos, target.position) < (target.scale + 5) * (target.scale + 5)

NoTarget ==
    -1

FirstTargetHit_LastMatch(pos, ts) ==
    IF \E i \in DOMAIN ts : ts[i].active /\ InCollisionRange(pos, ts[i])
    THEN LET i == CHOOSE i \in DOMAIN ts :
                      /\ ts[i].active /\ InCollisionRange(pos, ts[i])
                      /\ \A j \in (i + 1)..Len(ts) :
                             ~(ts[j].active /\ InCollisionRange(pos, ts[j]))
         IN  ts[i].id
    ELSE NoTarget

\* :63-81  the first active target of the list within range, NoTarget if none
FirstTargetHit(pos, ts) ==
    IF \E i \in DOMAIN ts : ts[i].active /\ InCollisionRange(pos, ts[i])
    THEN LET i == CHOOSE i \in DOMAIN ts :
                      /\ ts[i].active /\ InCollisionRange(pos, ts[i])
                      /\ \A j \in 1..(i - 1) : ~(ts[j].active /\ InCollisionRange(pos, ts[j]))
         IN  ts[i].id
    ELSE NoTarget

MoveBullet_NoExpiry(b, delta, ts) ==
    LET newPos  == VAdd(b.position, VScale(b.velocity, delta, 5))
        newLife == b.life - delta
        live    == b.active /\ newPos.z > -2000
        hitId   == IF live THEN FirstTargetHit(newPos, ts) ELSE NoTarget
    IN  [bullet |-> [b EXCEPT !.position = newPos, !.life = newLife],
         live   |-> live,
         hit    |-> hitId]

MoveBullet_NoAging(b, delta, ts) ==
    LET newPos  == VAdd(b.position, VScale(b.velocity, delta, 5))
        live    == b.active /\ b.life > 0 /\ newPos.z > -2000
        hitId   == IF live THEN FirstTargetHit(newPos, ts) ELSE NoTarget
    IN  [bullet |-> [b EXCEPT !.position = newPos],
         live   |-> live,
         hit    |-> hitId]

\* :51-92  one bullet of the update pass: moved (200 units per second), aged, and
\* tested against the target list ts that targetsRef holds during the pass
MoveBullet(b, delta, ts) ==
    LET newPos  == VAdd(b.position, VScale(b.velocity, delta, 5))
        newLife == b.life - delta
        live    == b.active /\ newLife > 0 /\ newPos.z > -2000
        hitId   == IF live THEN FirstTargetHit(newPos, ts) ELSE NoTarget
    IN  [bullet |-> [b EXCEPT !.position = newPos, !.life = newLife],
         live   |-> live,
         hit    |-> hitId]

FRAGMENT_COUNT ==
    12

createExplosion_OneShort(position, incidentVelocity, draws) ==
    [i \in 1..11 |->
        [position |-> position,
         velocity |-> VAdd(VScale(incidentVelocity, draws[i].base, 1),
                           VScale(draws[i].spread, draws[i].force, 1)),
         life     |-> draws[i].life]]

\* :149-176  the fragments of one explosion; draws[i] holds the random numbers of
\* fragment i: spread (a unit vector in tenths), base and force (speeds), life (ms)
createExplosion(position, incidentVelocity, draws) ==
    [i \in 1..FRAGMENT_COUNT |->
        [position |-> position,
         velocity |-> VAdd(VScale(incidentVelocity, draws[i].base, 1),
                           VScale(draws[i].spread, draws[i].force, 1)),
         life     |-> draws[i].life]]

\* :110-121  fragments moved by velocity * delta and aged; the expired ones dropped
MoveFragments(fs, delta) ==
    LET movedFs == [i \in DOMAIN fs |->
                       [fs[i] EXCEPT !.position = VAdd(fs[i].position,
                                                       VScale(fs[i].velocity, delta, 1000)),
                                     !.life = fs[i].life - delta]]
    IN  SelectSeq(movedFs, LAMBDA f : f.life > 0)

RECURSIVE Flatten(_)
Flatten(ss) ==
    IF ss = <<>> THEN <<>> ELSE Head(ss) \o Flatten(Tail(ss))

FIRE_DEBOUNCE ==
    100

ShouldSpawn_NoDebounce(hd, elapsedTime, lastFire) ==
    hd # Null /\ hd[1].isGunPose /\ hd[1].isFiring

\* :38-40  spawn condition on the props and the render clock (ms)
ShouldSpawn(hd, elapsedTime, lastFire) ==
    /\ hd # Null /\ hd[1].isGunPose /\ hd[1].isFiring
    /\ elapsedTime - lastFire > FIRE_DEBOUNCE

----------------------------------------------------------------------------
(* The r3f frame: the useFrame callbacks in mount order (Scene.tsx:209-224),  *)
(* TargetSystem.tsx:117-135, BulletSystem.tsx:34-122, ParallaxCamera.tsx:31-96, *)
(* and the commit of the state updates they queue                            *)

\* eager: the bullet updater runs inside the callback and reads the committed
\* target list; otherwise React runs it while rendering, after TargetSystem has
\* rendered this frame's scale update (always so when an append is queued first)
Frame(eager, draws) ==
    /\ "r3f" \in pending
    /\ fragmentTimers = <<>>
    /\ \A k \in DOMAIN respawnTimers : respawnTimers[k].due >= now
    /\ pending' = pending \ {"r3f"}
    /\ lastFrameAt' = now
    /\ UNCHANGED <<now, loops, horizon, mounted, lifeVars, requestRef, detections,
                   closedUse, ranAfterTeardown, trackVars, histTrackVars>>
    /\ LET delta       == now - lastFrameAt
           elapsedTime == now
           grown       == IF "TargetSystem" \in mounted
                          THEN GrowTargets(targets, delta) ELSE targets
           spawn       == /\ "BulletSystem" \in mounted
                          /\ ShouldSpawn(handData, elapsedTime, lastFireTime)
           newBullet   == spawnBullet(facePosition, now)
           prev        == IF spawn THEN Append(bullets, newBullet) ELSE bullets
           snapshot    == IF "TargetSystem" \in mounted
                          THEN (IF eager THEN targets ELSE grown) ELSE <<>>
           moved       == [i \in DOMAIN prev |-> MoveBullet(prev[i], delta, snapshot)]
           hitMoves    == SelectSeq(moved, LAMBDA m : m.hit # NoTarget)
           keptMoves   == SelectSeq(moved, LAMBDA m : m.live /\ m.hit = NoTarget)
           hitIds      == [k \in DOMAIN hitMoves |-> hitMoves[k].hit]
           newFragments == Flatten([k \in DOMAIN hitMoves |->
                               createExplosion(hitMoves[k].bullet.position,
                                               hitMoves[k].bullet.velocity, draws)])
           newCurrentPos == IF "ParallaxCamera" \in mounted
                            THEN SmoothTowards(currentPos, targetVec(facePositionRef))
                            ELSE currentPos
       IN  /\ spawn => ~eager
           /\ IF "BulletSystem" \in mounted
              THEN /\ bullets' = [k \in DOMAIN keptMoves |-> keptMoves[k].bullet]
                   /\ fragments' = MoveFragments(fragments, delta)
                   /\ fragmentTimers' = IF newFragments # <<>>
                                        THEN Append(fragmentTimers, newFragments)
                                        ELSE fragmentTimers
                   /\ lastFireTime' = IF spawn THEN elapsedTime ELSE lastFireTime
                   /\ targets' = MarkHits(grown, hitIds, now)
                   /\ respawnTimers' = respawnTimers \o NewRespawnTimers(hitIds, now)
                   /\ frameLog' = [snapshot |-> snapshot,
                                   moved    |-> [i \in DOMAIN moved |->
                                                    [id       |-> moved[i].bullet.id,
                                                     position |-> moved[i].bullet.position,
                                                     live     |-> moved[i].live]],
                                   hits     |-> [k \in DOMAIN hitMoves |->
                                                    [bullet |-> hitMoves[k].bullet.id,
                                                     target |-> hitMoves[k].hit]]]
                   /\ spawnCount' = IF spawn THEN spawnCount + 1 ELSE spawnCount
                   /\ lastSpawn' = IF spawn
                                   THEN Some([bullet   |-> newBullet,
                                              eye      |-> currentPos,
                                              eyeAfter |-> newCurrentPos])
                                   ELSE lastSpawn
              ELSE /\ targets' = grown
                   /\ UNCHANGED <<bullets, fragments, fragmentTimers, lastFireTime,
                                  respawnTimers, histSimVars>>
           /\ currentPos' = newCurrentPos

\* TargetSystem.tsx:92-112  the oldest respawn timer fires, at or after its due time
RespawnTimer ==
    /\ pending = {} \/ pending = loops
    /\ respawnTimers # <<>>
    /\ Head(respawnTimers).due <= now
    /\ respawnTimers' = Tail(respawnTimers)
    /\ targets' \in Respawned(targets, Head(respawnTimers).id)
    /\ UNCHANGED <<now, loops, pending, horizon, mounted, lifeVars, requestRef, detections,
                   closedUse, ranAfterTeardown, trackVars, histTrackVars,
                   lastFrameAt, currentPos, bullets, fragments, lastFireTime, fragmentTimers,
                   histSimVars>>

\* BulletSystem.tsx:101-103  the zero-delay timer of a frame's explosions fires
FragmentTimer ==
    /\ pending = {} \/ pending = loops
    /\ fragmentTimers # <<>>
    /\ fragmentTimers' = Tail(fragmentTimers)
    /\ fragments' = fragments \o Head(fragmentTimers)
    /\ UNCHANGED <<now, loops, pending, horizon, mounted, lifeVars, requestRef, detections,
                   closedUse, ranAfterTeardown, trackVars, histTrackVars,
                   lastFrameAt, currentPos, bullets, lastFireTime, targets, respawnTimers,
                   histSimVars>>

\* ParallaxCamera.tsx:14, BulletSystem.tsx:26-28 and the r3f clock after mounting
InitSimulation ==
    /\ lastFrameAt = 0
    /\ currentPos = Pt(0, 0, 600)
    /\ bullets = <<>>
    /\ fragments = <<>>
    /\ lastFireTime = 0
    /\ fragmentTimers = <<>>
    /\ respawnTimers = <<>>
    /\ frameLog = [snapshot |-> <<>>, moved |-> <<>>, hits |-> <<>>]
    /\ spawnCount = 0
    /\ lastSpawn = Null

----------------------------------------------------------------------------
(* Inputs of the gesture specification *)

\* A hand in gun pose (index out, others folded) with the index tip at height y
GunHand(y) ==
    [wrist     |-> Pt(1000, 1800, 0),
     thumbTip  |-> Pt(800, 1300, 0),
     indexMCP  |-> Pt(1000, 1400, 0),
     indexTip  |-> Pt(1000, y, 0),
     middlePIP |-> Pt(1050, 1450, 0),
     middleTip |-> Pt(1050, 1600, 0),
     ringPIP   |-> Pt(1100, 1470, 0),
     ringTip   |-> Pt(1100, 1620, 0),
     pinkyPIP  |-> Pt(1150, 1500, 0),
     pinkyTip  |-> Pt(1150, 1650, 0)]

\* An open hand (middle finger extended) with the index tip at height y
OpenHand(y) ==
    [GunHand(y) EXCEPT !.middleTip = Pt(1050, 1000, 0)]

GestureTipYs ==
    {800, 900, 950, 1000}

GestureHands ==
    {Null} \cup {Some(GunHand(y)) : y \in GestureTipYs} \cup {Some(OpenHand(1000))}

GestureFaces ==
    {Null}

GestureSteps ==
    {50, 100}

InitGesture ==
    /\ InitTracking
    /\ InitSimulation
    /\ loops = {"tracking"}
    /\ mounted = {}
    /\ targets = <<>>
    /\ horizon = MaxTime

NextGesture ==
    \/ \E d \in GestureSteps, v \in BOOLEAN : AdvanceTime(d, v)
    \/ \E f \in GestureFaces, h \in GestureHands : PredictWebcam(f, h)

SpecGesture ==
    InitGesture /\ [][NextGesture]_vars

----------------------------------------------------------------------------
(* Claims about the gesture classifier, checked under SpecGesture *)

\* This step processed a video frame in which a hand was found
ProcessedHandFrame ==
    lastVideoTimeRef' # lastVideoTimeRef /\ handDataRef' # Null

\* C1 (as amended): on every processed frame with a hand, a fire edge is emitted
\* if and only if gun pose holds, the time since the last gun-pose sample is
\* strictly between 0 and 100 ms, the index-tip vertical velocity is strictly
\* below the fire threshold (-0.0005 per ms) and the cooldown counter is <= 0.
C1_FireIffStrictlyBelowThreshold ==
    [][ProcessedHandFrame =>
         (handDataRef'[1].isFiring <=>
            /\ handDataRef'[1].isGunPose
            /\ now - lastTimeRef > 0
            /\ now - lastTimeRef < 100
            /\ handDataRef'[1].indexTipPos.y - lastIndexTipY < -(now - lastTimeRef)
            /\ recoilCoolDown <= 0)]_vars

\* C1 witness: a fire edge has just been published
C1_FireEdgePublished ==
    handDataRef # Null /\ handDataRef[1].isFiring

\* C1 as originally stated: the velocity condition is "less than or equal to the
\* fire threshold".
C1_FireIffAtOrBelowThreshold ==
    [][ProcessedHandFrame =>
         (handDataRef'[1].isFiring <=>
            /\ handDataRef'[1].isGunPose
            /\ now - lastTimeRef > 0
            /\ now - lastTimeRef < 100
            /\ handDataRef'[1].indexTipPos.y - lastIndexTipY <= -(now - lastTimeRef)
            /\ recoilCoolDown <= 0)]_vars

\* C2: two fire edges are never emitted at frame timestamps less than 400 ms apart.
C2_FireEdgesAtLeast400msApart ==
    [][(ProcessedHandFrame /\ handDataRef'[1].isFiring /\ lastFireAt >= 0) =>
         now - lastFireAt >= 400]_vars

\* C3: after a fire edge, with gun pose held on every frame and frames less than
\* 100 ms apart, the cooldown counter is <= 0 once 400 ms have elapsed.
C3_CoolDownEndsByTimeDecay ==
    (heldSinceFire /\ prevFrameMs - lastFireAt >= 400) => recoilCoolDown <= 0

\* C4: on every frame on which the classifier runs with the cooldown counter > 0
\* (the value the decay sees, after a possible fire edge), the counter is decreased
\* by the real time elapsed since the previous processed frame.
C4_CoolDownDecaysByFrameTime ==
    [][(ProcessedHandFrame /\ prevFrameMs >= 0) =>
         LET cd == IF handDataRef'[1].isFiring THEN 400 ELSE recoilCoolDown
         IN  cd > 0 => recoilCoolDown' = cd - (now - prevFrameMs)]_vars

\* C6: if the result published for a processed frame has isFiring true, the result
\* published for the next processed frame has isFiring false or is null.
C6_FiringIsOneFrameEdge ==
    prevFiring => (handDataRef = Null \/ ~handDataRef[1].isFiring)

\* C6 witness: a frame with gun pose has been processed right after a fire frame
C6_FrameAfterFireEdge ==
    prevFiring /\ handDataRef # Null /\ handDataRef[1].isGunPose

----------------------------------------------------------------------------
(* The simulation driven by published tracking results *)

MaxShots ==
    3

\* useMultimodalTracking.ts:110-111,134-138  what the tracking callback publishes in
\* an animation frame, as Scene.tsx:18,212-223 hands it to the components; a fire
\* edge lasts one published result
TrackingPublishes(face, hand) ==
    /\ "tracking" \in pending
    /\ "r3f" \notin pending
    /\ pending' = pending \ {"tracking"}
    /\ (hand # Null /\ hand[1].isFiring) =>
           /\ ~(handData # Null /\ handData[1].isFiring)
           /\ spawnCount < MaxShots
    /\ facePositionRef' = face
    /\ facePosition' = face
    /\ handDataRef' = hand
    /\ handData' = hand
    /\ UNCHANGED <<now, loops, horizon, mounted, lifeVars, requestRef, detections,
                   closedUse, ranAfterTeardown, videoTime, lastVideoTimeRef, lastIndexTipY,
                   lastTimeRef, recoilCoolDown, histTrackVars, simVars, histSimVars>>

\* a published gun-pose result with the fire edge set
FiringHand ==
    Some(NewHandData(GunHand(800), [isGunPose |-> TRUE, isFiring |-> TRUE]))

SimHands ==
    {Null, FiringHand}

\* a face far from the screen (eye at z = 100) and a near one (eye at z = 20)
FarFace ==
    [x |-> 0, y |-> 0, z |-> 10, detected |-> TRUE]

NearFace ==
    [x |-> 0, y |-> 0, z |-> -10, detected |-> TRUE]

\* a near face to the right of the screen axis (eye at (-30, 0, 40))
SideFace ==
    [x |-> 10, y |-> 0, z |-> -5, detected |-> TRUE]

\* the published results of the simulation: no hand (the face then plays no part),
\* or a fire edge with the face far or near
SimResults ==
    {[face |-> FarFace, hand |-> Null],
     [face |-> FarFace, hand |-> FiringHand],
     [face |-> NearFace, hand |-> FiringHand]}

\* the random numbers of the twelve fragments of an explosion
SpreadDirs ==
    <<Pt(10, 0, 0), Pt(-10, 0, 0), Pt(0, 10, 0), Pt(0, -10, 0), Pt(0, 0, 10), Pt(0, 0, -10)>>

ExplosionDraws ==
    {[i \in 1..FRAGMENT_COUNT |->
         [spread |-> SpreadDirs[((i - 1) % 6) + 1],
          base   |-> IF i <= 6 THEN 20 ELSE 30,
          force  |-> IF i <= 6 THEN 30 ELSE 40,
          life   |-> IF i % 2 = 0 THEN 500 ELSE 900]]}

SimStep ==
    200

SimMaxTime ==
    2800

InitSim ==
    /\ InitTracking
    /\ InitSimulation
    /\ loops = {"r3f", "tracking"}
    /\ mounted = {"TargetSystem", "BulletSystem"}
    /\ targets \in initialTargets(<<>>)
    /\ horizon = SimMaxTime

NextSim ==
    \/ AdvanceTime(SimStep, TRUE)
    \/ \E eager \in BOOLEAN, draws \in ExplosionDraws : Frame(eager, draws)
    \/ \E r \in SimResults : TrackingPublishes(r.face, r.hand)
    \/ RespawnTimer
    \/ FragmentTimer

SpecSim ==
    InitSim /\ [][NextSim]_vars

----------------------------------------------------------------------------
(* Claims about collisions, checked under SpecSim *)

\* the number of hit notifications the latest bullet pass issued for bullet id
HitsIssuedFor(id) ==
    Cardinality({k \in DOMAIN frameLog.hits : frameLog.hits[k].bullet = id})

\* bullet id is in the bullet list
InBulletList(id) ==
    \E k \in DOMAIN bullets : bullets[k].id = id

\* C8  In every bullet pass, a bullet that is still live after its movement and whose
\* new position is at a distance d < target.scale + 0.5 from some active target of the
\* list the pass reads causes exactly one hit notification and is removed from the
\* bullet list; a live bullet with d >= target.scale + 0.5 for all active targets
\* causes none and stays in the list.
C8_CollisionOutcome ==
    \A i \in DOMAIN frameLog.moved :
        LET m       == frameLog.moved[i]
            ts      == frameLog.snapshot
            inRange == \E j \in DOMAIN ts :
                           /\ ts[j].active
                           /\ DistSq3(m.position, ts[j].position)
                                  < (ts[j].scale + 5) * (ts[j].scale + 5)
        IN  m.live =>
                /\ inRange => (HitsIssuedFor(m.id) = 1 /\ ~InBulletList(m.id))
                /\ ~inRange => (HitsIssuedFor(m.id) = 0 /\ InBulletList(m.id))

\* the latest pass removed one bullet on impact and kept another live bullet
C8_OneBulletHitsAnotherStays ==
    /\ frameLog.hits # <<>>
    /\ \E i \in DOMAIN frameLog.moved :
           /\ frameLog.moved[i].live
           /\ HitsIssuedFor(frameLog.moved[i].id) = 0
           /\ InBulletList(frameLog.moved[i].id)

\* C9  Every hit notification of a bullet pass is for a target that was marked active
\* when the pass started, and once a target has been hit in the pass no later bullet
\* of that pass hits it again (it takes no part in collision checks until respawned).
C9_HitTargetTakesNoFurtherPart ==
    \A k \in DOMAIN frameLog.hits :
        /\ \E j \in DOMAIN frameLog.snapshot :
               /\ frameLog.snapshot[j].id = frameLog.hits[k].target
               /\ frameLog.snapshot[j].active
        /\ \A j \in 1..(k - 1) : frameLog.hits[j].target # frameLog.hits[k].target

----------------------------------------------------------------------------
(* Claims about respawning, checked under SpecSim *)

\* C10  Whenever a target goes from inactive to active, at least 2000 ms have passed
\* since the hit that made it inactive.
C10_InactiveAtLeast2000ms ==
    [][\A i \in DOMAIN targets :
           (~targets[i].active /\ targets'[i].active) => now' - targets[i].hitTime >= 2000]_vars

----------------------------------------------------------------------------
(* The tracking hook driving the bullet system *)

FireHands ==
    {Null, Some(GunHand(1000)), Some(GunHand(900))}

FireStep ==
    50

FireMaxTime ==
    400

InitFire ==
    /\ InitTracking
    /\ InitSimulation
    /\ loops = {"r3f", "tracking"}
    /\ mounted = {"BulletSystem"}
    /\ targets = <<>>
    /\ horizon = FireMaxTime

NextFire ==
    \/ \E v \in BOOLEAN : AdvanceTime(FireStep, v)
    \/ \E eager \in BOOLEAN, draws \in ExplosionDraws : Frame(eager, draws)
    \/ \E f \in GestureFaces, h \in FireHands : PredictWebcam(f, h)

SpecFire ==
    InitFire /\ [][NextFire]_vars

\* C5  Every fire edge results in exactly one bullet: there are never more bullets
\* spawned than fire edges published, and once the published result no longer
\* carries the edge, every edge has produced its bullet.
C5_OneBulletPerFireEdge ==
    /\ spawnCount <= fireCount
    /\ (handData = Null \/ ~handData[1].isFiring) => spawnCount = fireCount

----------------------------------------------------------------------------
(* The camera and the bullet system driven by published tracking results *)

CameraFaces ==
    {FarFace, SideFace}

CameraMaxTime ==
    1000

InitCamera ==
    /\ InitTracking
    /\ InitSimulation
    /\ loops = {"r3f", "tracking"}
    /\ mounted = {"BulletSystem", "ParallaxCamera"}
    /\ targets = <<>>
    /\ horizon = CameraMaxTime

NextCamera ==
    \/ AdvanceTime(SimStep, TRUE)
    \/ \E eager \in BOOLEAN, draws \in ExplosionDraws : Frame(eager, draws)
    \/ \E f \in CameraFaces, h \in SimHands : TrackingPublishes(f, h)

SpecCamera ==
    InitCamera /\ [][NextCamera]_vars

\* C7  A spawned bullet's velocity is the unit vector from the camera's smoothed eye
\* position to (0,0,0) and its spawn position is that eye plus 10 units along that
\* direction, the eye being the one the camera is rendered from (before or after the
\* camera's update of the spawning frame).
C7_BulletLeavesFromCameraEye ==
    lastSpawn # Null =>
        \E eye \in {lastSpawn[1].eye, lastSpawn[1].eyeAfter} :
            LET dir == Normalize(VSub(Origin, eye))
            IN  /\ lastSpawn[1].bullet.velocity = dir
                /\ lastSpawn[1].bullet.position = VAdd(eye, VScale(dir, 10, 1))

----------------------------------------------------------------------------
(* Claims about the target pool, checked under SpecSim *)

\* target i of pool ts is at least MIN_DIST from every other target active in ts,
\* when placed at pos
PlacedApart(pos, i, ts) ==
    \A j \in DOMAIN ts :
        (j # i /\ ts[j].active) =>
            DistSq3(pos, ts[j].position) >= (MIN_DIST * 10) * (MIN_DIST * 10)

\* C11  Whenever a target is placed, at pool creation or on respawn, its new position
\* is at least 6 units from every other target that is active at that moment.
C11_PlacedAtMinimumSeparation ==
    /\ \A i \in DOMAIN targets : PlacedApart(targets[i].position, i, SubSeq(targets, 1, i - 1))
    /\ [][\A i \in DOMAIN targets :
              (targets'[i].scale = 0 /\ targets[i] # targets'[i]) =>
                  PlacedApart(targets'[i].position, i, targets)]_vars

\* C12  A target that becomes active starts with scale 0; while it remains active its
\* scale never decreases and never exceeds the full scale 3, and every frame raises
\* it as long as it is below 3.
C12_ScaleGrowsWhileActive ==
    [][\A i \in DOMAIN targets :
           /\ (~targets[i].active /\ targets'[i].active) => targets'[i].scale = 0
           /\ (targets[i].active /\ targets'[i].active) =>
                  /\ targets'[i].scale >= targets[i].scale
                  /\ targets'[i].scale <= 30
                  /\ (lastFrameAt' # lastFrameAt /\ targets[i].scale < 30) =>
                         targets'[i].scale > targets[i].scale]_vars

\* C13  In every reachable state the target pool holds exactly PoolSize targets (15 in
\* the program) whose ids are the distinct numbers 0..PoolSize-1: hit, respawn and the
\* scale animation never add, remove or duplicate a target.
C13_PoolIsFixed ==
    /\ Len(targets) = PoolSize
    /\ {targets[i].id : i \in DOMAIN targets} = 0..(PoolSize - 1)

\* a target has been hit, has respawned and has been grown by a frame
C13_TargetRespawnedAndGrowing ==
    \E i \in DOMAIN targets :
        targets[i].active /\ targets[i].scale > 0 /\ targets[i].scale < 30

----------------------------------------------------------------------------
(* Claims about explosions, checked under SpecSim *)

\* the position the latest bullet pass moved bullet id to
ImpactPosition(log, id) ==
    LET i == CHOOSE i \in DOMAIN log.moved : log.moved[i].id = id
    IN  log.moved[i].position

\* C14  Every bullet-target collision adds exactly 12 fragments to the fragment
\* collection, all at the bullet's impact position, and fragments are added for no
\* other reason: a bullet pass queues 12 fragments per hit, in hit order, each at the
\* position its bullet was moved to, and adds none itself; any other step that adds
\* fragments adds exactly the oldest queued burst.
C14_TwelveFragmentsPerCollision ==
    [][IF lastFrameAt' # lastFrameAt
       THEN LET hits  == frameLog'.hits
                burst == IF Len(fragmentTimers') > Len(fragmentTimers)
                         THEN fragmentTimers'[Len(fragmentTimers')] ELSE <<>>
            IN  /\ Len(fragmentTimers') <= Len(fragmentTimers) + 1
                /\ Len(burst) = 12 * Len(hits)
                /\ \A k \in DOMAIN hits : \A n \in 1..12 :
                       burst[12 * (k - 1) + n].position
                           = ImpactPosition(frameLog', hits[k].bullet)
                /\ Len(fragments') <= Len(fragments)
       ELSE /\ Len(fragmentTimers') <= Len(fragmentTimers)
            /\ fragments' # fragments =>
                   /\ fragmentTimers # <<>>
                   /\ fragments' = fragments \o Head(fragmentTimers)
                   /\ fragmentTimers' = Tail(fragmentTimers)]_vars

\* the twelve fragments of a single collision are in the collection, at the impact
\* position
C14_BurstAdded ==
    /\ Len(frameLog.hits) = 1
    /\ Len(fragments) = 12
    /\ \A k \in DOMAIN fragments :
           fragments[k].position = ImpactPosition(frameLog, frameLog.hits[1].bullet)

----------------------------------------------------------------------------
(* Startup and teardown of the tracking hook, useMultimodalTracking.ts:39-256 *)

\* :44  the wasm fileset has been resolved
VisionResolved ==
    /\ startup = "vision"
    /\ startup' = "face"
    /\ UNCHANGED <<faceLandmarker, handLandmarker, stream, srcObject, loadeddata>>

\* :49  the face landmarker has been created
FaceCreated ==
    /\ startup = "face"
    /\ faceLandmarker' = "open"
    /\ startup' = "hand"
    /\ UNCHANGED <<handLandmarker, stream, srcObject, loadeddata>>

\* :60-75  the hand landmarker has been created and startWebcam is called: it returns
\* when there is no video element (:73), else it asks for the camera
HandCreated ==
    /\ startup = "hand"
    /\ handLandmarker' = "open"
    /\ startup' = IF videoElement THEN "camera" ELSE "done"
    /\ UNCHANGED <<faceLandmarker, stream, srcObject, loadeddata>>

\* :75-82  getUserMedia resolves with a live stream (granted) or rejects.  The
\* assignment at :78 throws when the video element is gone; the catch at :80 logs it.
CameraAnswered_RejectionIgnored(granted) ==
    /\ startup = "camera"
    /\ startup' = IF granted THEN "done" ELSE "failed"
    /\ stream' = "live"
    /\ srcObject' = videoElement
    /\ loadeddata' = IF videoElement THEN "listening" ELSE loadeddata
    /\ UNCHANGED <<faceLandmarker, handLandmarker>>

CameraAnswered(granted) ==
    /\ startup = "camera"
    /\ startup' = IF granted THEN "done" ELSE "failed"
    /\ stream' = IF granted THEN "live" ELSE stream
    /\ srcObject' = (granted /\ videoElement)
    /\ loadeddata' = IF granted /\ videoElement THEN "listening" ELSE loadeddata
    /\ UNCHANGED <<faceLandmarker, handLandmarker>>

\* :44, :49, :60  the awaited promise rejects (the fileset or a model cannot be loaded):
\* initMediaPipe ends there, startWebcam is never called
InitialisationFails ==
    /\ startup \in {"vision", "face", "hand"}
    /\ startup' = "failed"
    /\ UNCHANGED <<faceLandmarker, handLandmarker, stream, srcObject, loadeddata>>

\* a step of initMediaPipe / startWebcam, between animation frames
Startup(granted) ==
    /\ pending = {}
    /\ \/ VisionResolved
       \/ FaceCreated
       \/ HandCreated
       \/ CameraAnswered(granted)
       \/ InitialisationFails
    /\ UNCHANGED <<now, loops, pending, horizon, mounted, trackVars, histTrackVars, simVars,
                   histSimVars, videoElement, unmounted, teardownAt, cleanupLog, requestRef,
                   detections, closedUse, ranAfterTeardown>>

\* :79  the video element fires loadeddata for the live stream and the listener runs
\* predictWebcam for the first time
LoadedData(face, hand, videoReady) ==
    /\ pending = {}
    /\ loadeddata = "listening"
    /\ stream = "live"
    /\ loadeddata' = "fired"
    /\ \E throws \in Raises : predictWebcam(face, hand, videoReady, throws)
    /\ UNCHANGED <<now, pending, videoTime, horizon, mounted, simVars, histSimVars, startup,
                   faceLandmarker, handLandmarker, videoElement, stream, srcObject, unmounted,
                   teardownAt, cleanupLog>>

\* the callback run by requestAnimationFrame while the video may still have no size
PredictWebcamFrame(face, hand, videoReady) ==
    /\ "tracking" \in pending
    /\ "r3f" \notin pending
    /\ pending' = pending \ {"tracking"}
    /\ \E throws \in Raises : predictWebcam(face, hand, videoReady, throws)
    /\ UNCHANGED <<now, videoTime, horizon, mounted, simVars, histSimVars, lifeVars>>

\* :247-255  the effect cleanup.  detached: React has already cleared videoRef.current
\* (the element is being removed); otherwise the ref is still attached (the effect is
\* re-run on a mounted component).
Teardown(detached) ==
    LET cancel     == requestRef # 0
        closeFace  == faceLandmarker # "undefined"
        closeHand  == handLandmarker # "undefined"
        stopTracks == videoElement /\ ~detached /\ srcObject
    IN  /\ ~unmounted
        /\ unmounted' = TRUE
        /\ teardownAt' = startup
        /\ videoElement' = (videoElement /\ ~detached)
        /\ loops' = IF cancel THEN loops \ {"tracking"} ELSE loops
        /\ pending' = IF cancel THEN pending \ {"tracking"} ELSE pending
        /\ faceLandmarker' = IF closeFace THEN "closed" ELSE faceLandmarker
        /\ handLandmarker' = IF closeHand THEN "closed" ELSE handLandmarker
        /\ stream' = IF stopTracks THEN "stopped" ELSE stream
        /\ cleanupLog' = (IF cancel THEN <<"cancelAnimationFrame">> ELSE <<>>)
                            \o (IF closeFace THEN <<"faceLandmarker.close">> ELSE <<>>)
                            \o (IF closeHand THEN <<"handLandmarker.close">> ELSE <<>>)
                            \o (IF stopTracks THEN <<"track.stop">> ELSE <<>>)
        /\ UNCHANGED <<now, horizon, mounted, trackVars, histTrackVars, simVars, histSimVars,
                       startup, srcObject, loadeddata, requestRef, detections, closedUse,
                       ranAfterTeardown>>

\* the hook right after the effect has called initMediaPipe (:245)
Mounting ==
    /\ startup = "vision"
    /\ faceLandmarker = "undefined"
    /\ handLandmarker = "undefined"
    /\ videoElement = TRUE
    /\ stream = "none"
    /\ srcObject = FALSE
    /\ loadeddata = "none"
    /\ requestRef = 0
    /\ unmounted = FALSE
    /\ teardownAt = "none"
    /\ cleanupLog = <<>>

LifeMaxTime ==
    200

LifeStep ==
    50

\* the nose landmark of a face to the right of the image centre
SideNose ==
    [x |-> 15, y |-> 10, z |-> -5]

LifeFaces ==
    {Null, Some(SideNose)}

LifeHands ==
    {Null, Some(GunHand(1000)), Some(GunHand(900)), Some(GunHand(800))}

\* the hook's refs and state when the effect has just run (:21-37, :245)
InitHook ==
    /\ Mounting
    /\ detections = NoDetections
    /\ closedUse = FALSE
    /\ ranAfterTeardown = FALSE
    /\ now = 0
    /\ videoTime = 0
    /\ pending = {}
    /\ lastVideoTimeRef = -1
    /\ facePositionRef = InitialFacePosition
    /\ facePosition = InitialFacePosition
    /\ handDataRef = Null
    /\ handData = Null
    /\ lastIndexTipY = 0
    /\ lastTimeRef = 0
    /\ recoilCoolDown = 0
    /\ lastFireAt = -1
    /\ prevFrameMs = -1
    /\ heldSinceFire = FALSE
    /\ prevFiring = FALSE
    /\ fireCount = 0

InitLife ==
    /\ InitHook
    /\ InitSimulation
    /\ loops = {}
    /\ mounted = {}
    /\ targets = <<>>
    /\ horizon = LifeMaxTime

NextLife ==
    \/ \E v \in BOOLEAN : AdvanceTime(LifeStep, v)
    \/ \E granted \in BOOLEAN : Startup(granted)
    \/ \E f \in LifeFaces, h \in LifeHands, r \in BOOLEAN : LoadedData(f, h, r)
    \/ \E f \in LifeFaces, h \in LifeHands, r \in BOOLEAN : PredictWebcamFrame(f, h, r)
    \/ \E detached \in BOOLEAN : Teardown(detached)

SpecLife ==
    InitLife /\ [][NextLife]_vars

----------------------------------------------------------------------------
(* Claims about startup and teardown, checked under SpecLife *)

CleanupSteps ==
    <<"cancelAnimationFrame", "faceLandmarker.close", "handLandmarker.close", "track.stop">>

\* the steps of log occur in the order of CleanupSteps
InCleanupOrder(log) ==
    \A i, j \in DOMAIN log :
        i < j => \E m, n \in DOMAIN CleanupSteps :
                    m < n /\ CleanupSteps[m] = log[i] /\ CleanupSteps[n] = log[j]

\* C15  Teardown unregisters the per-frame callback, then closes both detectors, then
\* stops the camera tracks (all four steps when the loop was running); under every
\* interleaving of teardown with startup and frame callbacks no detector is invoked
\* after it has been closed and the frame callback does no work after teardown.
C15_TeardownStopsTracking ==
    /\ InCleanupOrder(cleanupLog)
    /\ (unmounted /\ requestRef # 0) => cleanupLog = CleanupSteps
    /\ ~closedUse
    /\ ~ranAfterTeardown

\* C16  If teardown runs before asynchronous startup has completed (during detector
\* initialisation or camera acquisition), then once startup has run to its end there is
\* no running frame loop, no open detector and no live camera track.
C16_EarlyTeardownLeavesNothing ==
    (teardownAt \in {"vision", "face", "hand", "camera"} /\ startup \in {"done", "failed"}) =>
        /\ "tracking" \notin loops
        /\ faceLandmarker # "open"
        /\ handLandmarker # "open"
        /\ stream # "live"

----------------------------------------------------------------------------
(* Claims about the per-frame callback, checked under SpecLife *)

\* both detectors ran in this step and their results were published
ProcessedFrame ==
    detections'.handCalls = detections.handCalls + 1

\* predictWebcam ran in this step, from the loadeddata listener or from an animation frame
CallbackRan ==
    \/ loadeddata = "listening" /\ loadeddata' = "fired"
    \/ "tracking" \in pending /\ "tracking" \notin pending' /\ unmounted' = unmounted

\* C17  On a processed frame in which no hand is found, the published gesture result
\* becomes null on both channels (the ref and the React state).
C17_NoHandPublishesNull ==
    [][(ProcessedFrame /\ detections'.hand = Null) =>
           (handDataRef' = Null /\ handData' = Null)]_vars

\* no hand was found on the latest processed frame, the result published before it
\* carried the fire flag, and both channels are null
C17_FireFlagCleared ==
    /\ detections.handCalls = 1
    /\ detections.hand = Null
    /\ prevFiring
    /\ handDataRef = Null
    /\ handData = Null

\* C18  On a processed frame in which no face is found, the published face position
\* (ref and React state) has detected = FALSE and exactly the x, y, z of the
\* previously published face position.
C18_LostFaceKeepsPosition ==
    [][(ProcessedFrame /\ detections'.face = Null) =>
           /\ facePosition' = [facePosition EXCEPT !.detected = FALSE]
           /\ facePositionRef' = [facePositionRef EXCEPT !.detected = FALSE]
           /\ facePosition' = facePositionRef']_vars

\* a face off the image centre was published and then lost
C18_OffCentreFaceLost ==
    /\ detections.handCalls = 1
    /\ detections.face = Null
    /\ facePosition = [x |-> 5, y |-> 0, z |-> -5, detected |-> FALSE]

\* C19  When the per-frame callback runs and the video timestamp equals the last
\* processed one, neither detector is invoked and the face result, the hand result and
\* the classifier state (last-Y, last-time, cooldown) are unchanged; each detector is
\* invoked at most once per video frame.
C19_SameVideoFrameIsSkipped ==
    [][/\ (CallbackRan /\ videoTime = lastVideoTimeRef) =>
              /\ detections' = detections
              /\ UNCHANGED <<facePositionRef, facePosition, handDataRef, handData,
                             lastIndexTipY, lastTimeRef, recoilCoolDown>>
       /\ detections'.faceCalls <= 1
       /\ detections'.handCalls <= 1]_vars

\* the callback of this animation frame has run on a video frame that had already been
\* processed, with a hand result published
C19_CallbackRanOnOldFrame ==
    /\ now > videoTime
    /\ lastVideoTimeRef = videoTime
    /\ pending = {}
    /\ "tracking" \in loops
    /\ detections.handCalls = 1
    /\ handData # Null

\* the published result hd is the one computed from the latest processed frame
FromLatestFrame(hd) ==
    hd # Null =>
        /\ detections.hand # Null
        /\ hd[1].landmarks = detections.hand[1]
        /\ hd[1].wristPos = hd[1].landmarks.wrist
        /\ hd[1].indexTipPos = hd[1].landmarks.indexTip
        /\ hd[1].isGunPose = isGunPoseOf(hd[1].landmarks)
        /\ hd[1].isFiring = (lastFireAt = prevFrameMs)

\* C20  Every gesture result observable by a reader, on either channel, has isGunPose,
\* isFiring, wristPos, indexTipPos and landmarks all computed from the landmarks of
\* one and the same processed frame.
C20_ResultFromOneFrame ==
    /\ FromLatestFrame(handDataRef)
    /\ FromLatestFrame(handData)

\* a result carrying the fire flag is visible on both channels
C20_FiringResultVisible ==
    /\ handDataRef # Null
    /\ handData # Null
    /\ handDataRef[1].isFiring
    /\ handData[1].isFiring

----------------------------------------------------------------------------
(* Claims about the order of work in a frame, checked under SpecFire *)

FrameOrder ==
    <<"faceLandmarker.detectForVideo", "setFacePosition", "handLandmarker.detectForVideo",
      "analyzeHandGesture", "setHandData">>

\* the steps of log occur in the order of FrameOrder, none twice
InFrameOrder(log) ==
    \A i, j \in DOMAIN log :
        i < j => \E m, n \in DOMAIN FrameOrder :
                    m < n /\ FrameOrder[m] = log[i] /\ FrameOrder[n] = log[j]

----------------------------------------------------------------------------
(* Startup of the hook under the running scene: camera and bullet system *)

StartMaxTime ==
    250

StartHands ==
    {Some(GunHand(1000)), Some(GunHand(900))}

InitStart ==
    /\ InitHook
    /\ InitSimulation
    /\ loops = {"r3f"}
    /\ mounted = {"BulletSystem", "ParallaxCamera"}
    /\ targets = <<>>
    /\ horizon = StartMaxTime

NextStart ==
    \/ AdvanceTime(LifeStep, TRUE)
    \/ \E granted \in BOOLEAN : Startup(granted)
    \/ \E f \in LifeFaces, h \in StartHands : LoadedData(f, h, TRUE)
    \/ \E f \in LifeFaces, h \in StartHands : PredictWebcamFrame(f, h, TRUE)
    \/ \E eager \in BOOLEAN, draws \in ExplosionDraws : Frame(eager, draws)

SpecStart ==
    InitStart /\ [][NextStart]_vars

\* C22  After an acquisition failure (camera access rejected or detector
\* initialisation failing) the system stays inert: no face or hand result is ever
\* published, the face position stays undetected, the eye stays at (0,0,60) and no
\* bullet is ever spawned.
C22_InertAfterAcquisitionFailure ==
    startup = "failed" =>
        /\ detections = NoDetections
        /\ handDataRef = Null
        /\ handData = Null
        /\ facePositionRef = InitialFacePosition
        /\ facePosition = InitialFacePosition
        /\ currentPos = Pt(0, 0, 600)
        /\ spawnCount = 0
        /\ bullets = <<>>
        /\ "tracking" \notin loops

\* the camera was rejected and scene frames have run since
C22_FramesAfterRejection ==
    /\ startup = "failed"
    /\ handLandmarker = "open"
    /\ lastFrameAt >= 100

----------------------------------------------------------------------------
(* Bullets in flight: long frames, eyes from the nearest to a very distant one *)

FlightStep ==
    500

FlightMaxTime ==
    3500

\* a face so near that the eye depth is clamped to 10 (eye at (0, 0, 10))
ClampedFace ==
    [x |-> 0, y |-> 0, z |-> -13, detected |-> TRUE]

\* eye at (0, 0, 80)
MidFace ==
    [x |-> 0, y |-> 0, z |-> 5, detected |-> TRUE]

\* eye at (0, 0, 420)
DistantFace ==
    [x |-> 0, y |-> 0, z |-> 90, detected |-> TRUE]

FlightResults ==
    {[face |-> MidFace, hand |-> Null],
     [face |-> ClampedFace, hand |-> FiringHand],
     [face |-> MidFace, hand |-> FiringHand],
     [face |-> DistantFace, hand |-> FiringHand]}

InitFlight ==
    /\ InitTracking
    /\ InitSimulation
    /\ loops = {"r3f", "tracking"}
    /\ mounted = {"TargetSystem", "BulletSystem"}
    /\ targets \in initialTargets(<<>>)
    /\ horizon = FlightMaxTime

NextFlight ==
    \/ AdvanceTime(FlightStep, TRUE)
    \/ \E eager \in BOOLEAN, draws \in ExplosionDraws : Frame(eager, draws)
    \/ \E r \in FlightResults : TrackingPublishes(r.face, r.hand)
    \/ RespawnTimer
    \/ FragmentTimer

SpecFlight ==
    InitFlight /\ [][NextFlight]_vars

\* the bullet list the update pass of this frame starts from: the list of the previous
\* frame and the bullet spawned in this frame, if any
BulletsBefore ==
    bullets \o (IF spawnCount' # spawnCount THEN <<lastSpawn'[1].bullet>> ELSE <<>>)

\* bullet b after delta ms: position advanced by velocity * 200 * delta (delta in
\* seconds), life reduced by delta, velocity unchanged
Advanced(b, delta) ==
    [b EXCEPT !.position = VAdd(b.position, VScale(b.velocity, 200 * delta, 1000)),
              !.life = b.life - delta]

\* the update pass of this frame called hit for bullet id
Collided(id) ==
    \E k \in DOMAIN frameLog'.hits : frameLog'.hits[k].bullet = id

\* with Gone(b) telling which advanced bullets are removed, the new list is the
\* advanced bullets that are not removed
BulletPass(Gone(_)) ==
    LET delta  == lastFrameAt' - lastFrameAt
        before == BulletsBefore
    IN  lastFrameAt' # lastFrameAt =>
            /\ \A i \in DOMAIN before :
                   (\E j \in DOMAIN bullets' : bullets'[j].id = before[i].id)
                       <=> ~(Gone(Advanced(before[i], delta)) \/ Collided(before[i].id))
            /\ \A j \in DOMAIN bullets' :
                   \E i \in DOMAIN before : bullets'[j] = Advanced(before[i], delta)
            /\ Len(bullets') <= Len(before)

SpentOrAtFarLimit(b) ==
    b.life <= 0 \/ b.position.z <= -2000

SpentOrBeyondFarLimit(b) ==
    b.life <= 0 \/ b.position.z < -2000

\* C23 (as amended)  Each frame, every bullet in the list advances its position by
\* velocity * 200 * delta and its life by -delta with its velocity unchanged, and it
\* is removed in that frame exactly when its new life is <= 0, its new depth is at or
\* beyond the far limit (z <= -200), or it collided with a target.
C23_BulletPassRemovesAtFarLimit ==
    [][BulletPass(SpentOrAtFarLimit)]_vars

\* a bullet was moved to depth -200 exactly and removed without hitting anything
C23_RemovedAtFarLimit ==
    /\ frameLog.hits = <<>>
    /\ \E i \in DOMAIN frameLog.moved :
           /\ frameLog.moved[i].position.z = -2000
           /\ ~frameLog.moved[i].live
           /\ \A j \in DOMAIN bullets : bullets[j].id # frameLog.moved[i].id

\* C23 (as stated)  ... removed exactly when its new life is <= 0, its new depth has
\* passed the far limit (z < -200), or it collided with a target.
C23_BulletPassRemovesBeyondFarLimit ==
    [][BulletPass(SpentOrBeyondFarLimit)]_vars

----------------------------------------------------------------------------
(* The eye: camera and bullet system under faces that come, go and get very near *)

\* a face to the right and below, too near (eye depth clamped), and the same face lost
NearSideFace ==
    [x |-> 10, y |-> -10, z |-> -13, detected |-> TRUE]

LostSideFace ==
    [x |-> 10, y |-> -10, z |-> -13, detected |-> FALSE]

\* a face to the left and above
HighSideFace ==
    [x |-> -10, y |-> 10, z |-> 5, detected |-> TRUE]

EyeFaces ==
    {InitialFacePosition, LostSideFace, NearSideFace, HighSideFace, MidFace, ClampedFace}

EyeMaxTime ==
    800

InitEye ==
    /\ InitTracking
    /\ InitSimulation
    /\ loops = {"r3f", "tracking"}
    /\ mounted = {"BulletSystem", "ParallaxCamera"}
    /\ targets = <<>>
    /\ horizon = EyeMaxTime

NextEye ==
    \/ AdvanceTime(SimStep, TRUE)
    \/ \E eager \in BOOLEAN, draws \in ExplosionDraws : Frame(eager, draws)
    \/ \E f \in EyeFaces, h \in SimHands : TrackingPublishes(f, h)

SpecEye ==
    InitEye /\ [][NextEye]_vars

\* the eye the claim gives for face position fp, in tenths of a unit
ClaimedEye(fp) ==
    IF ~fp.detected
    THEN Pt(0, 0, 600)
    ELSE Pt(-(fp.x * 30), fp.y * 20,
            IF 600 + fp.z * 40 >= 100 THEN 600 + fp.z * 40 ELSE 100)

\* C24  The target eye is (0, 0, 60) whenever the face is not detected, and otherwise
\* (-faceX*30, faceY*20, max(10, 60 + faceZ*40)), for every face position: each camera
\* frame smooths towards that eye, and a bullet spawned in the frame leaves from it.
C24_TargetEye ==
    [][lastFrameAt' # lastFrameAt =>
           /\ currentPos' = SmoothTowards(currentPos, ClaimedEye(facePositionRef))
           /\ spawnCount' # spawnCount =>
                  LET eye == ClaimedEye(facePosition)
                      dir == Normalize(VSub(Origin, eye))
                  IN  /\ lastSpawn'[1].bullet.velocity = dir
                      /\ lastSpawn'[1].bullet.position = VAdd(eye, VScale(dir, 10, 1))]_vars

\* after a frame towards the eye (-30, -20, 10) of the near side face, the face was
\* lost with its coordinates kept, and the next frame moved the eye towards (0, 0, 60)
C24_LostFaceTargetsCentre ==
    /\ facePositionRef = LostSideFace
    /\ lastFrameAt = now
    /\ currentPos = Pt(-63, -42, 495)

\* |a|
Abs(a) ==
    IF a >= 0 THEN a ELSE -a

\* moving from cur to new is 0.3 of the way to tgt, to within the rounding of a tenth
OneSmoothingStep(cur, new, tgt) ==
    /\ Abs(10 * (new.x - cur.x) - 3 * (tgt.x - cur.x)) <= 5
    /\ Abs(10 * (new.y - cur.y) - 3 * (tgt.y - cur.y)) <= 5
    /\ Abs(10 * (new.z - cur.z) - 3 * (tgt.z - cur.z)) <= 5

\* C25  On every camera frame the smoothed eye moves by exactly the smoothing factor
\* (0.3) of the vector from its current value to the current target (whether the face
\* is detected, lost or regained), so no frame-to-frame change of the eye exceeds one
\* smoothing step and the eye never snaps to the default or to the target.
C25_OneSmoothingStepPerFrame ==
    [][lastFrameAt' # lastFrameAt =>
           OneSmoothingStep(currentPos, currentPos', targetVec(facePositionRef))]_vars

\* the face was lost for one frame and regained: the eye, having moved towards the
\* centre for a frame, is again on its way to the face's eye (-30, -20, 10), not there
C25_RegainedWithoutSnap ==
    /\ facePositionRef = NearSideFace
    /\ lastFrameAt = now
    /\ currentPos = Pt(-134, -89, 377)

----------------------------------------------------------------------------
(* The pose test over hands that differ finger by finger *)

\* the hand of GunHand with the index tip at height y and depth z and the middle, ring
\* and pinky tips at heights m, r and p
PoseHand(y, z, m, r, p) ==
    [GunHand(y) EXCEPT !.indexTip  = Pt(1000, y, z),
                       !.middleTip = Pt(1050, m, 0),
                       !.ringTip   = Pt(1100, r, 0),
                       !.pinkyTip  = Pt(1150, p, 0)]

\* index tip far from the wrist in the image (0.5) or not (0.675)
PoseTipYs ==
    {1000, 1350}

\* index tip depth: 0.0495, 0.05 and 0.0505 nearer than the index MCP
PoseTipZs ==
    {-99, -100, -101}

\* a finger tip beyond its PIP joint, on it, and nearer to the wrist than it
PoseMiddleYs ==
    {1000, 1450, 1600}

PoseRingYs ==
    {1000, 1470, 1620}

PosePinkyYs ==
    {1000, 1500, 1650}

PoseHands ==
    {Some(PoseHand(y, z, m, r, p)) :
        y \in PoseTipYs, z \in PoseTipZs, m \in PoseMiddleYs, r \in PoseRingYs,
        p \in PosePinkyYs}

PoseMaxTime ==
    100

InitPose ==
    /\ InitTracking
    /\ InitSimulation
    /\ loops = {"tracking"}
    /\ mounted = {}
    /\ targets = <<>>
    /\ horizon = PoseMaxTime

NextPose ==
    \/ AdvanceTime(FireStep, TRUE)
    \/ \E h \in PoseHands : PredictWebcam(Null, h)

SpecPose ==
    InitPose /\ [][NextPose]_vars

\* squared distance in the image plane, in landmark units
ImageDistSq(p, q) ==
    (p.x - q.x) * (p.x - q.x) + (p.y - q.y) * (p.y - q.y)

\* the three other fingers are folded: each tip closer to the wrist than its PIP joint
OthersFolded(lm) ==
    /\ ImageDistSq(lm.middleTip, lm.wrist) < ImageDistSq(lm.middlePIP, lm.wrist)
    /\ ImageDistSq(lm.ringTip, lm.wrist) < ImageDistSq(lm.ringPIP, lm.wrist)
    /\ ImageDistSq(lm.pinkyTip, lm.wrist) < ImageDistSq(lm.pinkyPIP, lm.wrist)

\* tip-to-wrist distance squared > 1.5 x MCP-to-wrist distance squared
IndexLongInImage(lm) ==
    10 * ImageDistSq(lm.indexTip, lm.wrist) > 15 * ImageDistSq(lm.indexMCP, lm.wrist)

\* every published result carries the pose given by Extended for its landmarks
PoseIs(Extended(_)) ==
    /\ handDataRef = handData
    /\ handData # Null =>
           (handData[1].isGunPose <=>
               (Extended(handData[1].landmarks) /\ OthersFolded(handData[1].landmarks)))

ExtendedMoreThan(lm) ==
    IndexLongInImage(lm) \/ lm.indexMCP.z - lm.indexTip.z > 100

ExtendedAtLeast(lm) ==
    IndexLongInImage(lm) \/ lm.indexMCP.z - lm.indexTip.z >= 100

\* C26 (as amended)  For every set of hand landmarks, isGunPose is true if and only if
\* the index finger is extended (squared 2D tip-to-wrist distance > 1.5 x squared
\* MCP-to-wrist distance, or tip depth more than 0.05 nearer than MCP depth) and each of
\* the middle, ring and pinky tips is closer in squared 2D distance to the wrist than
\* its PIP joint.
C26_GunPoseIffExtendedAndFolded ==
    PoseIs(ExtendedMoreThan)

\* a hand short in the image whose index tip is exactly 0.05 nearer than the MCP, the
\* other fingers folded, has been published: no gun pose
C26_ExactlyFiveHundredthsNearer ==
    /\ handData # Null
    /\ handData[1].landmarks = PoseHand(1350, -100, 1600, 1620, 1650)
    /\ ~handData[1].isGunPose

\* C26 (as stated)  ... or tip depth at least 0.05 nearer than MCP depth ...
C26_GunPoseIffAtLeastFiveHundredths ==
    PoseIs(ExtendedAtLeast)

----------------------------------------------------------------------------
(* Claims about the classifier state, checked under SpecLife *)

\* a frame with a hand was processed in this step
ClassifiedFrame ==
    ProcessedFrame /\ detections'.hand # Null

\* C27  On a gun-pose frame whose elapsed time since the last gun-pose sample is <= 0
\* or >= 100 ms, no fire edge is emitted whatever the velocity and cooldown, and last-Y
\* and last-time are still updated to this frame's values.
C27_StaleSampleNeverFires ==
    [][(/\ ClassifiedFrame
        /\ handDataRef'[1].isGunPose
        /\ (now - lastTimeRef <= 0 \/ now - lastTimeRef >= 100)) =>
           /\ ~handDataRef'[1].isFiring
           /\ ~handData'[1].isFiring
           /\ lastIndexTipY' = detections'.hand[1].indexTip.y
           /\ lastTimeRef' = now]_vars

\* the first video frame, processed at time 0 (elapsed time 0), showed a gun pose:
\* no fire edge, trackers updated
C27_GunPoseAtTimeZero ==
    /\ now = 0
    /\ detections.handCalls = 1
    /\ handData # Null
    /\ handData[1].isGunPose
    /\ ~handData[1].isFiring
    /\ lastIndexTipY = handData[1].indexTipPos.y
    /\ lastTimeRef = 0

----------------------------------------------------------------------------
(* Claims about the collision loop, checked under SpecFlight *)

\* target t is active and within collision range of pos
WithinRange(pos, t) ==
    t.active /\ DistSq3(pos, t.position) < (t.scale + 5) * (t.scale + 5)

\* C28  At most one target is hit per bullet per frame: hit is called at most once for
\* a bullet, for the first target in pool order that is active and within collision
\* range of the bullet's new position, and a target for which no bullet called hit in
\* the frame keeps its active flag, position and hit time.
C28_OneTargetPerBullet ==
    [][lastFrameAt' # lastFrameAt =>
           LET hits == frameLog'.hits
               snap == frameLog'.snapshot
           IN  /\ \A k, l \in DOMAIN hits : hits[k].bullet = hits[l].bullet => k = l
               /\ \A k \in DOMAIN hits :
                      LET pos == ImpactPosition(frameLog', hits[k].bullet)
                      IN  \E i \in DOMAIN snap :
                              /\ snap[i].id = hits[k].target
                              /\ WithinRange(pos, snap[i])
                              /\ \A j \in 1..(i - 1) : ~WithinRange(pos, snap[j])
               /\ \A i \in DOMAIN targets :
                      (\A k \in DOMAIN hits : hits[k].target # targets[i].id) =>
                          /\ targets'[i].active = targets[i].active
                          /\ targets'[i].position = targets[i].position
                          /\ targets'[i].hitTime = targets[i].hitTime]_vars

\* a bullet came within range of two active targets at once: the first was hit, the
\* second is still active
C28_SecondTargetInRangeSpared ==
    /\ Len(frameLog.hits) = 1
    /\ frameLog.hits[1].target = 0
    /\ \A i \in DOMAIN frameLog.snapshot :
           WithinRange(ImpactPosition(frameLog, frameLog.hits[1].bullet),
                       frameLog.snapshot[i])
    /\ Len(frameLog.snapshot) >= 2
    /\ ~targets[1].active
    /\ targets[2].active
    /\ lastFrameAt = now

----------------------------------------------------------------------------
(* The gesture classifier under hands with the thumb up and with the thumb pinched *)

\* the gun hand with the thumb tip on the index tip
PinchHand(y) ==
    [GunHand(y) EXCEPT !.thumbTip = Pt(1000, y, 0)]

PinchHands ==
    {Some(GunHand(1000)), Some(GunHand(900)), Some(PinchHand(1000)), Some(PinchHand(900))}

PinchMaxTime ==
    300

InitPinch ==
    /\ InitTracking
    /\ InitSimulation
    /\ loops = {"tracking"}
    /\ mounted = {}
    /\ targets = <<>>
    /\ horizon = PinchMaxTime

NextPinch ==
    \/ AdvanceTime(FireStep, TRUE)
    \/ \E h \in PinchHands : PredictWebcam(Null, h)

SpecPinch ==
    InitPinch /\ [][NextPinch]_vars

\* the thumb tip is within 0.05 of the index tip in the image
Pinched(lm) ==
    (lm.thumbTip.x - lm.indexTip.x) * (lm.thumbTip.x - lm.indexTip.x)
        + (lm.thumbTip.y - lm.indexTip.y) * (lm.thumbTip.y - lm.indexTip.y) <= 100 * 100

\* C29  A shot is triggered by pinching the thumb and index finger together: a fire
\* edge is published exactly on the frames on which the thumb tip comes to the index
\* tip (pinched on this frame, not on the frame before).
C29_FireIsAPinch ==
    [][ClassifiedFrame =>
           (handData'[1].isFiring <=>
               /\ Pinched(handData'[1].landmarks)
               /\ ~(handData # Null /\ Pinched(handData[1].landmarks)))]_vars

----------------------------------------------------------------------------
(* Claims about the trackers and the cooldown counter, checked under SpecGesture *)

\* C30  On a classified frame in which gun pose does not hold, last-Y and last-time are
\* left unchanged and the cooldown counter is not raised; in every step the counter is
\* raised only by a fire edge, and a fire edge leaves it at 400.
C30_TrackersKeptCounterRaisedOnlyByFire ==
    [][/\ (ClassifiedFrame /\ ~handDataRef'[1].isGunPose) =>
              /\ lastIndexTipY' = lastIndexTipY
              /\ lastTimeRef' = lastTimeRef
              /\ recoilCoolDown' <= recoilCoolDown
       /\ (recoilCoolDown' > recoilCoolDown) =>
              /\ ClassifiedFrame
              /\ handDataRef'[1].isFiring
       /\ (ClassifiedFrame /\ handDataRef'[1].isFiring) =>
              recoilCoolDown' = RecoilCoolDownMs]_vars

\* an open hand was classified after a fire edge: the counter has decayed below 400 and
\* last-time still holds the time of an earlier gun-pose frame
C30_OpenHandDuringCoolDown ==
    /\ handDataRef # Null
    /\ ~handDataRef[1].isGunPose
    /\ recoilCoolDown > 0
    /\ recoilCoolDown < RecoilCoolDownMs
    /\ lastTimeRef < now
    /\ lastIndexTipY # handDataRef[1].indexTipPos.y

----------------------------------------------------------------------------
(* The two eye computations, checked under SpecEye *)

\* C31  The target eye the camera computes inline and the eye calculateCameraPosition
\* returns to the bullet system are the same point for the face position each of them
\* reads (prop and ref), detected or not, clamped or not; so the camera's frame moves
\* towards the helper's point and a bullet spawned in the frame leaves from the
\* camera's inline point.
C31_InlineEyeEqualsHelperEye ==
    /\ [](\A fp \in {facePosition, facePositionRef} :
             targetVec(fp) = calculateCameraPosition(fp))
    /\ [][lastFrameAt' # lastFrameAt =>
             /\ currentPos' = SmoothTowards(currentPos, calculateCameraPosition(facePositionRef))
             /\ spawnCount' # spawnCount =>
                    LET eye == targetVec(facePosition)
                        dir == Normalize(VSub(Origin, eye))
                    IN  lastSpawn'[1].bullet.position = VAdd(eye, VScale(dir, 10, 1))]_vars

\* a frame at the current time spawned a bullet and moved the camera while the face was
\* so near that the eye depth is clamped to 10
C31_BothComputedForClampedFace ==
    /\ facePosition = NearSideFace
    /\ facePositionRef = NearSideFace
    /\ 600 + facePosition.z * 40 < 100
    /\ spawnCount > 0
    /\ lastFireTime = now
    /\ lastFrameAt = now
    /\ currentPos # Pt(0, 0, 600)

----------------------------------------------------------------------------
(* The camera alone, in front of a face that stays much too near *)

\* a face so near that the unclamped eye depth 60 + z * 40 is negative (-20)
VeryNearFace ==
    [x |-> 10, y |-> 0, z |-> -20, detected |-> TRUE]

\* the same face a little less near: unclamped eye depth 8, still below the minimum
TooNearFace ==
    [x |-> 10, y |-> 0, z |-> -13, detected |-> TRUE]

DepthFaces ==
    {VeryNearFace, TooNearFace}

DepthMaxTime ==
    4000

InitDepth ==
    /\ InitTracking
    /\ InitSimulation
    /\ loops = {"r3f", "tracking"}
    /\ mounted = {"ParallaxCamera"}
    /\ targets = <<>>
    /\ horizon = DepthMaxTime

NextDepth ==
    \/ AdvanceTime(SimStep, TRUE)
    \/ \E eager \in BOOLEAN, draws \in ExplosionDraws : Frame(eager, draws)
    \/ \E f \in DepthFaces : TrackingPublishes(f, Null)

SpecDepth ==
    InitDepth /\ [][NextDepth]_vars

\* C32  In every reachable state the smoothed eye depth is at least the minimum depth
\* 10, so the divisor used in the frustum computation is positive and the 0.1 safety
\* clamp does not change the value.
C32_EyeDepthAtLeastMinimum ==
    /\ currentPos.z >= MIN_Z * 10
    /\ safePz(currentPos.z) > 0
    /\ safePz(currentPos.z) = currentPos.z

\* with the face much too near, the eye has come down to within 0.1 of the minimum depth
C32_EyeAtMinimumDepth ==
    /\ facePositionRef = VeryNearFace
    /\ 600 + facePositionRef.z * 40 < 0
    /\ lastFrameAt = now
    /\ currentPos.z <= MIN_Z * 10 + 1

----------------------------------------------------------------------------
(* Claims about respawn timers, checked under SpecSim *)

\* the respawn timers pending for target id
TimersFor(id) ==
    {k \in DOMAIN respawnTimers : respawnTimers[k].id = id}

\* C33  Each deactivation of a target schedules exactly one respawn: an inactive
\* target has exactly one respawn timer pending and an active target has none (a hit
\* call for an inactive target starts no timer), so a respawn timer never fires on a
\* target that is currently active.
C33_OneRespawnPerDeactivation ==
    \A i \in DOMAIN targets :
        Cardinality(TimersFor(targets[i].id)) = IF targets[i].active THEN 0 ELSE 1

----------------------------------------------------------------------------
(* Respawning under fair scheduling: the browser keeps delivering animation    *)
(* frames and runs every timer that is due (requestAnimationFrame, setTimeout) *)

\* the render loop is fair: a pending r3f frame is run (weak fairness of Frame, whose
\* only way of leaving pending is the frame itself)
FramesKeepComing ==
    []<>("r3f" \notin pending)

SpecRespawn ==
    /\ InitFlight
    /\ [][NextFlight]_vars
    /\ WF_vars(AdvanceTime(FlightStep, TRUE))
    /\ WF_vars(\E r \in FlightResults : TrackingPublishes(r.face, r.hand))
    /\ WF_vars(RespawnTimer)
    /\ WF_vars(FragmentTimer)
    /\ FramesKeepComing

\* C34  Every target that is hit eventually becomes active again, whatever hits,
\* respawn timers and frame updates come in between (for hits whose respawn delay of
\* 2 s ends within the modelled time).
C34_HitTargetRespawns ==
    \A i \in 1..PoolSize :
        (/\ i \in DOMAIN targets
         /\ ~targets[i].active
         /\ targets[i].hitTime + RESPAWN_DELAY <= horizon)
            ~> (i \in DOMAIN targets /\ targets[i].active)

\* a target that was hit is active again and growing from scale 0, its timer gone
C34_RespawnedAfterHit ==
    \E i \in DOMAIN targets :
        /\ targets[i].active
        /\ targets[i].scale < 30
        /\ TimersFor(targets[i].id) = {}
        /\ now >= RESPAWN_DELAY

----------------------------------------------------------------------------
(* Claims about the published gesture result, checked under SpecPose *)

\* C35  Every published gesture result with isFiring true also has isGunPose true
\* (the ref and the state alike).
C35_FiringImpliesGunPose ==
    /\ (handDataRef # Null /\ handDataRef[1].isFiring) => handDataRef[1].isGunPose
    /\ (handData # Null /\ handData[1].isFiring) => handData[1].isGunPose

\* a fire edge has been published, in the ref and in the state, from a hand in gun pose
C35_FireEdgeInGunPose ==
    /\ handData # Null
    /\ handData[1].isFiring
    /\ handData[1].isGunPose
    /\ handData = handDataRef
    /\ fireCount > 0

----------------------------------------------------------------------------
(* Claims about the spawn debounce, checked under SpecFire *)

\* C36  At most one bullet is spawned per render frame, and two bullets are never
\* spawned less than 0.1 s of render-clock time apart, however long the fire flag
\* stays visible to the simulation.
C36_SpawnsDebounced ==
    [][/\ spawnCount' <= spawnCount + 1
       /\ Len(bullets') <= Len(bullets) + 1
       /\ spawnCount' # spawnCount =>
              /\ lastFrameAt' = now
              /\ lastSpawn # Null =>
                     lastSpawn'[1].bullet.id - lastSpawn[1].bullet.id >= FIRE_DEBOUNCE]_vars

\* one fire edge stayed visible long enough for a second bullet to be spawned
C36_SecondBulletFromOneEdge ==
    /\ fireCount = 1
    /\ spawnCount = 2
    /\ handData # Null
    /\ handData[1].isFiring
    /\ lastFireTime = now

----------------------------------------------------------------------------
(* Claims about the end of bullets, checked under SpecRespawn (fair frames) *)

\* the times at which a frame can spawn a bullet (a bullet's id is its spawn time)
SpawnTimes ==
    {k * FlightStep : k \in 0..(FlightMaxTime \div FlightStep)}

\* bullet id is in the bullet list
Flying(id) ==
    \E k \in DOMAIN bullets : bullets[k].id = id

\* the time by which the frames after the spawn of bullet id have accumulated 3 s of
\* delta, the spawn frame's own delta included
EndsBy(id) ==
    id - FlightStep + BULLET_LIFE

\* C37  Every bullet is eventually removed from the bullet list provided render frames
\* keep occurring with positive delta (for bullets whose 3 s end within the modelled
\* time); after each frame update every bullet left in the list is active with
\* life > 0 and depth > -200; and no bullet survives more than 3.0 s of accumulated
\* delta: its life and the delta accumulated since its spawn frame stay below 3.0 s.
C37_BulletsEnd ==
    /\ [](\A k \in DOMAIN bullets :
             /\ bullets[k].active
             /\ bullets[k].life > 0
             /\ bullets[k].position.z > -2000
             /\ bullets[k].life + (lastFrameAt - bullets[k].id) < BULLET_LIFE
             /\ lastFrameAt - bullets[k].id < BULLET_LIFE)
    /\ \A id \in SpawnTimes :
           (Flying(id) /\ EndsBy(id) <= horizon) ~> ~Flying(id)

\* a bullet ran out of life in the latest frame: short of the far limit, no target hit,
\* removed from the list
C37_RemovedAtEndOfLife ==
    \E i \in DOMAIN frameLog.moved :
        /\ ~frameLog.moved[i].live
        /\ frameLog.moved[i].position.z > -2000
        /\ lastFrameAt - frameLog.moved[i].id + FlightStep = BULLET_LIFE
        /\ ~Flying(frameLog.moved[i].id)

====
